---- MODULE Spec2Model ----
(***************************************************************************)
(* A model of the two downloaders of overcast-archive:                     *)
(*   - download_overcast_podcasts.py: a manually refilled thread pool of   *)
(*     download_episode tasks, deduplicated by on-disk presence;           *)
(*   - overcast_archive.py: PodcastDownloader, deduplicated by a log of    *)
(*     URL hashes.                                                         *)
(* Strings are sequences of one-character strings; a path is a pair        *)
(* <<directory, file name>>.                                               *)
(***************************************************************************)
EXTENDS Integers, Sequences, FiniteSets, TLC

VARIABLES
    export,       \* the episodes yielded by get_episodes, in document order
    disk,         \* the download directory: path -> file content
    dirs,         \* the podcast directories created by mkdir_p
    today,        \* the calendar day (datetime.now())
    run,          \* which invocation of the program this is
    main_pc,      \* position of the __main__ block
    next_ep,      \* position of the episodes generator
    futures,      \* the futures set of the __main__ loop
    pc,           \* position of each download_episode call
    local,        \* filename / download_path / json_path of each call
    outcome,      \* what became of each episode's media fetch in this run
    fetch_count,  \* media fetch attempts per episode in this run
    faults,       \* environment failures injected so far
    faulted,      \* did the environment fail during this run
    tree_prev,    \* the download directory as the previous run left it
    prev_end,     \* how the previous run ended
    xml_string,   \* what reading and parsing the OPML file gives
    feed_by,      \* the calls that fetched a feed snapshot in this run
    prev_failed,  \* the episodes whose fetch Failed in the previous run
    a_export,     \* overcast_archive.py: the outline nodes of the source file
    a_disk,       \* the podcasts directory: path -> chunks of the file
    downloaded_file,      \* the lines of downloaded_episodes.txt
    downloaded_episodes,  \* the set loaded from it at construction
    a_run,        \* which invocation of overcast_archive.py this is
    a_main,       \* position of download_podcasts
    a_cur,        \* the podcast whose episodes are in the pool
    a_pc,         \* position of each PodcastDownloader.download_episode call
    a_off,        \* chunks each call has written to its file
    a_outcome,    \* what became of each episode in this run
    a_faults,     \* environment failures injected so far
    fn            \* get_filename at work on one title and one URL

dvars == <<export, disk, dirs, today, run, main_pc, next_ep, futures, pc,
           local, outcome, fetch_count, faults, faulted, tree_prev, prev_end,
           xml_string, feed_by, prev_failed>>

avars == <<a_export, a_disk, downloaded_file, downloaded_episodes, a_run,
           a_main, a_cur, a_pc, a_off, a_outcome, a_faults>>

vars == <<dvars, avars, fn>>

-----------------------------------------------------------------------------
(* Bounds *)

MaxFaults == 1
MaxRuns == 2
MaxDay == 2
MaxTitleLen == 2
MaxPathLen == 3

(* Program constants *)

max_parallel_downloads == 5

-----------------------------------------------------------------------------
(* Strings *)

Max(S) == CHOOSE m \in S : \A n \in S : n <= m

Min2(a, b) == IF a <= b THEN a ELSE b

\* str.rfind, 1-based, 0 when absent
RFind(s, c) ==
    LET I == {i \in 1..Len(s) : s[i] = c}
    IN  IF I = {} THEN 0 ELSE Max(I)

StartsWith(s, old) ==
    /\ Len(old) <= Len(s)
    /\ SubSeq(s, 1, Len(old)) = old

\* str.replace(old, new): every non-overlapping occurrence, left to right
RECURSIVE Replace(_, _, _)
Replace(s, old, new) ==
    IF s = <<>> THEN <<>>
    ELSE IF StartsWith(s, old)
         THEN new \o Replace(SubSeq(s, Len(old) + 1, Len(s)), old, new)
         ELSE <<Head(s)>> \o Replace(Tail(s), old, new)

MP3 == <<".", "m", "p", "3">>
OGG == <<".", "o", "g", "g">>
DotJson == <<".", "j", "s", "o", "n">>

\* urlparse(download_url): the model keeps a URL in parsed form
Url(p) == [isNone |-> FALSE, path |-> p]
NoneUrl == [isNone |-> TRUE, path |-> <<>>]

\* os.path.splitext(url_path)[-1]
splitext(p) ==
    LET sepIndex == RFind(p, "/")
        dotIndex == RFind(p, ".")
    IN  IF /\ dotIndex > sepIndex
           /\ \E k \in (sepIndex + 1)..(dotIndex - 1) : p[k] # "."
        THEN SubSeq(p, dotIndex, Len(p))
        ELSE <<>>

_escape(s) == [i \in 1..Len(s) |-> IF s[i] \in {":", "/"} THEN "-" ELSE s[i]]

get_filename(download_url, title) == _escape(title) \o splitext(download_url.path)

-----------------------------------------------------------------------------
(* The export and the files of the download directory *)

Podcast(t) ==
    [title |-> t, xml_url |-> Url(<<"/">> \o t \o <<".", "x", "m", "l">>)]

\* one item of get_episodes: the enclosure URL ends in the overcast id
Episode(podcast, title, id, ext) ==
    [podcast |-> podcast,
     episode |-> [title |-> title, overcast_id |-> id,
                  enclosure_url |-> Url(<<"/">> \o id \o ext)]]

MediaFile(url) == [kind |-> "media", body |-> url]

FeedFile(url) == [kind |-> "feed", body |-> url]

\* json.dumps(episode) after episode["filename"] = filename
JsonFile(ep, filename) ==
    [kind |-> "json", podcast |-> ep.podcast, episode |-> ep.episode,
     filename |-> filename]

exists(path) == path \in DOMAIN disk

\* open(path, "w").write(content), or os.rename(tmp_path, path)
Put(d, path, content) ==
    [p \in DOMAIN d \cup {path} |-> IF p = path THEN content ELSE d[p]]

EmptyDisk == [p \in {} |-> <<>>]

podcast_dir(ep) == _escape(ep.podcast.title)

NoLocal == [filename |-> <<>>, download_path |-> <<>>, json_path |-> <<>>]

\* strftime("%Y-%m-%d")
DayStr(d) ==
    <<"2", "0", "0", "1", "-", "0", "1", "-", "0">> \o
    <<(<<"1", "2", "3", "4", "5", "6", "7", "8", "9">>)[d]>>

rss_path(ep) ==
    <<podcast_dir(ep),
      <<"f", "e", "e", "d", ".">> \o DayStr(today) \o <<".", "x", "m", "l">>>>

PodP == Podcast(<<"P">>)

PoolExport ==
    << Episode(PodP, <<"a">>, <<"1">>, MP3),
       Episode(PodP, <<"b">>, <<"2">>, MP3),
       Episode(PodP, <<"c">>, <<"3">>, MP3),
       Episode(PodP, <<"d">>, <<"4">>, MP3),
       Episode(PodP, <<"e">>, <<"5">>, MP3),
       Episode(PodP, <<"f">>, <<"6">>, MP3) >>

\* the tree an earlier, complete run left for the episodes S of an export
\* whose file names are distinct
PriorDisk(ex, S) ==
    LET media(i) == <<podcast_dir(ex[i]),
                      get_filename(ex[i].episode.enclosure_url, ex[i].episode.title)>>
        json(i) == <<podcast_dir(ex[i]), _escape(ex[i].episode.title) \o DotJson>>
        owner(p) == CHOOSE i \in S : p \in {media(i), json(i)}
    IN  [p \in UNION {{media(i), json(i)} : i \in S} |->
            IF p = media(owner(p))
            THEN MediaFile(ex[owner(p)].episode.enclosure_url)
            ELSE JsonFile(ex[owner(p)], media(owner(p))[2])]

Episodes == DOMAIN export

Completed(S) == {e \in S : pc[e] \in {"done", "raised"}}

InFlight == {e \in Episodes : pc[e] \notin {"pending", "done", "raised"}}

-----------------------------------------------------------------------------
(* download_overcast_podcasts.py: download_episode *)

\* lines 166-185: resolve the paths, create the directory, first existence test
Resolve(e) ==
    /\ pc[e] = "resolve"
    /\ LET ep == export[e]
           audio_url == ep.episode.enclosure_url
       IN  IF audio_url.isNone
           THEN \* get_filename raises TypeError
                /\ pc' = [pc EXCEPT ![e] = "raised"]
                /\ UNCHANGED <<local, dirs>>
           ELSE LET filename == get_filename(audio_url, ep.episode.title)
                    download_path == <<podcast_dir(ep), filename>>
                    json_path == <<podcast_dir(ep), _escape(ep.episode.title) \o DotJson>>
                IN  /\ dirs' = dirs \cup {podcast_dir(ep)}
                    /\ local' = [local EXCEPT ![e] =
                                    [filename |-> filename,
                                     download_path |-> download_path,
                                     json_path |-> json_path]]
                    /\ pc' = [pc EXCEPT ![e] =
                                 IF exists(download_path) THEN "load" ELSE "check2"]
    /\ UNCHANGED <<fn, avars, xml_string, feed_by, prev_failed, export, disk, today, run, main_pc, next_ep, futures, outcome,
                   fetch_count, faults, faulted, tree_prev, prev_end>>

\* line 192: filename.replace(".mp3", "_%s.mp3" % this_overcase_id)
Disambiguate(filename, id) == Replace(filename, MP3, <<"_">> \o id \o MP3)

\* lines 186-194: read the cached sidecar, disambiguate on another overcast id
LoadCached(e) ==
    /\ pc[e] = "load"
    /\ LET ep == export[e]
           l == local[e]
       IN  IF ~exists(l.json_path) \/ disk[l.json_path].kind # "json"
           THEN \* open / json.load raises
                /\ pc' = [pc EXCEPT ![e] = "raised"]
                /\ UNCHANGED local
           ELSE LET cached_overcast_id == disk[l.json_path].episode.overcast_id
                    this_overcase_id == ep.episode.overcast_id
                    filename == Disambiguate(l.filename, this_overcase_id)
                IN  /\ pc' = [pc EXCEPT ![e] = "check2"]
                    /\ local' = [local EXCEPT ![e] =
                          IF cached_overcast_id # this_overcase_id
                          THEN [filename |-> filename,
                                download_path |-> <<podcast_dir(ep), filename>>,
                                json_path |-> <<podcast_dir(ep), filename \o DotJson>>]
                          ELSE l]
    /\ UNCHANGED <<fn, avars, xml_string, feed_by, prev_failed, export, disk, dirs, today, run, main_pc, next_ep, futures,
                   outcome, fetch_count, faults, faulted, tree_prev, prev_end>>

\* lines 197-199: second existence test; skip when the media file is there
Check2(e) ==
    /\ pc[e] = "check2"
    /\ IF exists(local[e].download_path)
       THEN /\ pc' = [pc EXCEPT ![e] = "done"]
            /\ outcome' = [outcome EXCEPT ![e] = "Skipped"]
       ELSE /\ pc' = [pc EXCEPT ![e] = "fetch"]
            /\ UNCHANGED outcome
    /\ UNCHANGED <<fn, avars, xml_string, feed_by, prev_failed, export, disk, dirs, today, run, main_pc, next_ep, futures,
                   local, fetch_count, faults, faulted, tree_prev, prev_end>>

download_url_in_place(d, path, content, r) ==
    IF r = "rename_error" THEN d
    ELSE Put(d, path, IF r = "ok" THEN content ELSE [kind |-> "partial"])

\* lines 149-155: urlretrieve into a temporary file, then os.rename; the
\* result r is what the network and the file system do to this transfer
download_url(d, path, content, r) ==
    IF r = "ok" THEN Put(d, path, content) ELSE d

Results == {"ok", "fetch_error", "rename_error"}

Inject(r) ==
    /\ r # "ok" => faults < MaxFaults
    /\ faults' = IF r = "ok" THEN faults ELSE faults + 1
    /\ faulted' = (faulted \/ r # "ok")

\* line 204: download_url for the media file; a fetch error is logged and
\* swallowed, a failing os.rename propagates
DownloadMedia(e) ==
    /\ pc[e] = "fetch"
    /\ \E r \in Results :
        /\ Inject(r)
        /\ disk' = download_url(disk, local[e].download_path,
                                MediaFile(export[e].episode.enclosure_url), r)
        /\ pc' = [pc EXCEPT ![e] = IF r = "rename_error" THEN "raised" ELSE "json"]
        /\ outcome' = [outcome EXCEPT ![e] = IF r = "ok" THEN "Downloaded" ELSE "Failed"]
    /\ fetch_count' = [fetch_count EXCEPT ![e] = @ + 1]
    /\ UNCHANGED <<fn, avars, xml_string, feed_by, prev_failed, export, dirs, today, run, main_pc, next_ep, futures, local,
                   tree_prev, prev_end>>

\* lines 207-212: write the sidecar
WriteJson(e) ==
    /\ pc[e] = "json"
    /\ disk' = Put(disk, local[e].json_path, JsonFile(export[e], local[e].filename))
    /\ pc' = [pc EXCEPT ![e] = "feed"]
    /\ UNCHANGED <<fn, avars, xml_string, feed_by, prev_failed, export, dirs, today, run, main_pc, next_ep, futures, local,
                   outcome, fetch_count, faults, faulted, tree_prev, prev_end>>

\* lines 218-225: save_rss_feed returns when today's snapshot is there
SaveRssCheck(e) ==
    /\ pc[e] = "feed"
    /\ pc' = [pc EXCEPT ![e] = IF exists(rss_path(export[e])) THEN "done" ELSE "feedfetch"]
    /\ UNCHANGED <<fn, avars, xml_string, feed_by, prev_failed, export, disk, dirs, today, run, main_pc, next_ep, futures,
                   local, outcome, fetch_count, faults, faulted, tree_prev, prev_end>>

\* lines 227-232: download_url for the feed snapshot
DownloadFeed(e) ==
    /\ pc[e] = "feedfetch"
    /\ \E r \in Results :
        /\ Inject(r)
        /\ disk' = download_url(disk, rss_path(export[e]),
                                FeedFile(export[e].podcast.xml_url), r)
        /\ pc' = [pc EXCEPT ![e] = IF r = "rename_error" THEN "raised" ELSE "done"]
    /\ feed_by' = feed_by \cup {e}
    /\ UNCHANGED <<fn, avars, xml_string, prev_failed, export, dirs, today, run, main_pc, next_ep, futures, local,
                   outcome, fetch_count, tree_prev, prev_end>>

-----------------------------------------------------------------------------
(* download_overcast_podcasts.py: __main__ *)

get_episodes_incremental(xml, ex) == ex

\* lines 57-62, 95-115: ET.fromstring parses the whole document at the first
\* next(); ex holds the episodes of the document (those before the
\* malformed point, for a malformed one)
get_episodes(xml, ex) == IF xml = "ok" THEN ex ELSE <<>>

\* itertools.islice(episodes, n) with the generator at position pos
islice(pos, n) == pos..Min2(pos + n - 1, Len(get_episodes(xml_string, export)))

InitialBatchAll == islice(1, Len(export))

\* lines 254-257: the first batch
InitialBatch == islice(1, max_parallel_downloads)

RefillOne(done) == islice(next_ep, 1)

\* line 267: one new episode per completed future
Refill(done) == islice(next_ep, Cardinality(done))

Submit(batch) == [e \in Episodes |-> IF e \in batch THEN "resolve" ELSE pc[e]]

\* what lines 241-248 and ET.fromstring can meet
Inputs == {"ok", "missing", "unreadable", "malformed"}

\* lines 241-257: a file that cannot be read ends the program before the
\* pool exists; a ParseError of the first next() unwinds the with block
MainStart ==
    /\ main_pc = "start"
    /\ IF xml_string \in {"missing", "unreadable"}
       THEN /\ main_pc' = "crashed"
            /\ UNCHANGED <<pc, futures, next_ep>>
       ELSE /\ pc' = Submit(InitialBatch)
            /\ futures' = InitialBatch
            /\ next_ep' = Cardinality(InitialBatch) + 1
            /\ main_pc' = IF xml_string = "malformed" THEN "unwinding"
                          ELSE IF InitialBatch = {} THEN "exit" ELSE "wait"
    /\ UNCHANGED <<fn, avars, xml_string, feed_by, prev_failed, export, disk, dirs, today, run, local, outcome, fetch_count,
                   faults, faulted, tree_prev, prev_end>>

\* lines 259-270: one iteration of the while loop; fut.result() re-raises
\* the exception of a failed download_episode call
MainRound ==
    /\ main_pc = "wait"
    /\ LET done == Completed(futures)
           not_done == futures \ done
       IN  /\ done # {}
           /\ IF \E e \in done : pc[e] = "raised"
              THEN /\ main_pc' = "unwinding"
                   /\ futures' = not_done
                   /\ UNCHANGED <<pc, next_ep>>
              ELSE /\ pc' = Submit(Refill(done))
                   /\ futures' = not_done \cup Refill(done)
                   /\ next_ep' = next_ep + Cardinality(Refill(done))
                   /\ main_pc' = IF futures' = {} THEN "exit" ELSE "wait"
    /\ UNCHANGED <<fn, avars, xml_string, feed_by, prev_failed, export, disk, dirs, today, run, local, outcome, fetch_count,
                   faults, faulted, tree_prev, prev_end>>

\* line 253: leaving the with block on an exception waits for the submitted
\* calls (shutdown(wait=True)), then the exception ends the program
MainUnwind ==
    /\ main_pc = "unwinding"
    /\ InFlight = {}
    /\ main_pc' = "crashed"
    /\ UNCHANGED <<fn, avars, xml_string, feed_by, prev_failed, export, disk, dirs, today, run, next_ep, futures, pc, local,
                   outcome, fetch_count, faults, faulted, tree_prev, prev_end>>

RunEnded == main_pc \in {"exit", "crashed"}

\* a fresh process on the same export and download directory
Restart(how) ==
    /\ run < MaxRuns
    /\ run' = run + 1
    /\ today' \in today..MaxDay
    /\ main_pc' = "start"
    /\ next_ep' = 1
    /\ futures' = {}
    /\ pc' = [e \in Episodes |-> "pending"]
    /\ local' = [e \in Episodes |-> NoLocal]
    /\ outcome' = [e \in Episodes |-> "none"]
    /\ fetch_count' = [e \in Episodes |-> 0]
    /\ faulted' = FALSE
    /\ tree_prev' = disk
    /\ prev_end' = how
    /\ feed_by' = {}
    /\ prev_failed' = {e \in Episodes : outcome[e] = "Failed"}
    /\ UNCHANGED <<fn, avars, xml_string, export, disk, dirs, faults>>

NextRun ==
    /\ RunEnded
    /\ Restart(IF main_pc = "crashed" THEN "crashed"
               ELSE IF faulted THEN "failed" ELSE "clean")

\* the process is killed while the pool is at work, and run again
Interrupt ==
    /\ main_pc \in {"wait", "unwinding"}
    /\ Restart("interrupted")

-----------------------------------------------------------------------------
(* Specifications *)

DInit(ex, d) ==
    /\ export = ex
    /\ disk = d
    /\ dirs = {p[1] : p \in DOMAIN d}
    /\ today = 1
    /\ run = 1
    /\ main_pc = "start"
    /\ next_ep = 1
    /\ futures = {}
    /\ pc = [e \in DOMAIN ex |-> "pending"]
    /\ local = [e \in DOMAIN ex |-> NoLocal]
    /\ outcome = [e \in DOMAIN ex |-> "none"]
    /\ fetch_count = [e \in DOMAIN ex |-> 0]
    /\ faults = 0
    /\ faulted = FALSE
    /\ tree_prev = d
    /\ prev_end = "none"
    /\ feed_by = {}
    /\ prev_failed = {}

\* overcast_archive.py at rest
AIdle ==
    /\ a_export = <<>>
    /\ a_disk = EmptyDisk
    /\ downloaded_file = <<>>
    /\ downloaded_episodes = {}
    /\ a_run = 1
    /\ a_main = "start"
    /\ a_cur = 0
    /\ a_pc = <<>>
    /\ a_off = <<>>
    /\ a_outcome = <<>>
    /\ a_faults = 0

\* an export that grew since an earlier run fetched episodes 2, 3, 4 and 6
PoolPrior == {{2, 3, 4, 6}}

\* get_filename at rest
NoFn == [state |-> "idle", title |-> <<>>, path |-> <<>>, result |-> <<>>]

Init ==
    /\ \E S \in PoolPrior : DInit(PoolExport, PriorDisk(PoolExport, S))
    /\ xml_string = "ok"
    /\ AIdle
    /\ fn = NoFn

Next ==
    \/ MainStart
    \/ MainRound
    \/ MainUnwind
    \/ \E e \in Episodes : Resolve(e)
    \/ \E e \in Episodes : LoadCached(e)
    \/ \E e \in Episodes : Check2(e)
    \/ \E e \in Episodes : DownloadMedia(e)
    \/ \E e \in Episodes : WriteJson(e)
    \/ \E e \in Episodes : SaveRssCheck(e)
    \/ \E e \in Episodes : DownloadFeed(e)

Spec == Init /\ [][Next]_vars

\* an export with two episodes beyond the first batch
LongExport == PoolExport \o << Episode(PodP, <<"g">>, <<"7">>, MP3) >>

\* all of them but the sixth are on disk from an earlier run
LongPrior == {1, 2, 3, 4, 5, 7}

InitRefill ==
    /\ DInit(LongExport, PriorDisk(LongExport, LongPrior))
    /\ xml_string = "ok"
    /\ AIdle
    /\ fn = NoFn

SpecRefill == InitRefill /\ [][Next]_vars

SeqsUpTo(S, n) == UNION {[1..k -> S] : k \in 0..n}

\* titles and URL paths over the characters get_filename treats specially
Titles == SeqsUpTo({"a", ":", "/"}, MaxTitleLen)

UrlPaths == SeqsUpTo({"x", ".", ":", "/"}, MaxPathLen)

\* lines 166-168: download_episode calls get_filename on the enclosure URL
\* and the title
GetFilename ==
    /\ fn.state = "input"
    /\ fn' = [fn EXCEPT !.state = "done",
                        !.result = get_filename(Url(fn.path), fn.title)]
    /\ UNCHANGED <<dvars, avars>>

InitFilename ==
    /\ DInit(<<>>, EmptyDisk)
    /\ xml_string = "ok"
    /\ AIdle
    /\ \E t \in Titles, p \in UrlPaths :
          fn = [state |-> "input", title |-> t, path |-> p, result |-> <<>>]

NextFilename == GetFilename

SpecFilename == InitFilename /\ [][NextFilename]_vars

\* two episodes of one podcast under one title, with distinct overcast ids
TwinExport(ext) ==
    << Episode(PodP, <<"t">>, <<"1">>, ext),
       Episode(PodP, <<"t">>, <<"2">>, ext) >>

\* a single episode
SoloExport == << Episode(PodP, <<"s">>, <<"3">>, MP3) >>

\* an episode outline without enclosureUrl, followed by a complete one
NoUrlExport ==
    << [podcast |-> PodP,
        episode |-> [title |-> <<"n">>, overcast_id |-> <<"7">>,
                     enclosure_url |-> NoneUrl]],
       Episode(PodP, <<"s">>, <<"3">>, MP3) >>

RerunExports == {TwinExport(MP3), TwinExport(OGG), SoloExport, NoUrlExport}

InitRerun ==
    /\ \E ex \in RerunExports : DInit(ex, EmptyDisk)
    /\ xml_string \in Inputs
    /\ AIdle
    /\ fn = NoFn

NextRerun ==
    \/ Next
    \/ NextRun
    \/ Interrupt

SpecRerun == InitRerun /\ [][NextRerun]_vars

-----------------------------------------------------------------------------
(* overcast_archive.py: PodcastDownloader *)

NumChunks == 2

\* line 21: re.sub(r'[<>:"/\\|?*]', ' ', filename)
sanitize_filename(s) ==
    [i \in 1..Len(s) |->
        IF s[i] \in {"<", ">", ":", "\"", "/", "\\", "|", "?", "*"} THEN " " ELSE s[i]]

\* line 25: SHA-256 of the URL, taken as collision free
hash_url(url) == <<"#">> \o url.path

\* line 69: f"{url_hash}\n"
LogLine(h) == h \o <<"\n">>

\* line 31: line.strip()
strip(line) ==
    IF line # <<>> /\ line[Len(line)] = "\n" THEN SubSeq(line, 1, Len(line) - 1) ELSE line

\* lines 29-33: load_downloaded_episodes
load_downloaded_episodes(file) == {strip(file[i]) : i \in DOMAIN file}

TruncatingWrite(file, line) == <<line>>

\* lines 68-69: open(self.downloaded_file, 'a') and one buffered write, which
\* reaches the file as a single O_APPEND write when the file is closed
AppendLine(file, line) == Append(file, line)

\* lines 52-55: strptime(pub_date, "%Y-%m-%dT%H:%M:%S%z"), then strftime('%Y-%m-%d')
formatted_date(pub_date) ==
    IF /\ Len(pub_date) = 25
       /\ pub_date[5] = "-" /\ pub_date[8] = "-" /\ pub_date[11] = "T"
    THEN SubSeq(pub_date, 1, 10)
    ELSE <<>>

\* line 58, with podcast_dir of line 115
mp3_file(node) ==
    <<sanitize_filename(node.podcast),
      formatted_date(node.pubDate) \o <<" ">> \o sanitize_filename(node.title) \o MP3>>

PubDate ==
    <<"2", "0", "0", "1", "-", "0", "1", "-", "0", "1", "T",
      "0", "1", ":", "0", "1", ":", "0", "1", "-", "0", "0", ":", "0", "0">>

\* an episode outline of the podcast pod
Node(pod, title, played, url) ==
    [podcast |-> pod, title |-> title, played |-> played, enclosureUrl |-> url,
     pubDate |-> PubDate]

U1 == Url(<<"/", "1">> \o MP3)
U2 == Url(<<"/", "2">> \o MP3)

\* two played episodes of one podcast
PlainArchive ==
    << Node(<<"Q">>, <<"x">>, "1", U1),
       Node(<<"Q">>, <<"y">>, "1", U2) >>

\* one episode listed twice in its podcast
RepeatArchive ==
    << Node(<<"Q">>, <<"x">>, "1", U1),
       Node(<<"Q">>, <<"x">>, "1", U1) >>

\* one episode carried by two podcasts
SharedArchive ==
    << Node(<<"Q">>, <<"x">>, "1", U1),
       Node(<<"R">>, <<"x">>, "1", U1) >>

\* a played episode among an unplayed one, one without enclosureUrl and one
\* without the played attribute
MixedArchive ==
    << Node(<<"Q">>, <<"x">>, "1", U1),
       Node(<<"Q">>, <<"y">>, "0", U2),
       Node(<<"Q">>, <<"z">>, "1", NoneUrl),
       Node(<<"Q">>, <<"w">>, "absent", U2) >>

ArchiveExports == {PlainArchive, RepeatArchive, SharedArchive, MixedArchive}

Nodes == DOMAIN a_export

\* the podcasts of the source file, in document order
PodcastOf(e) == Cardinality({a_export[i].podcast : i \in 1..e})

NumPodcasts == IF a_export = <<>> THEN 0 ELSE PodcastOf(Len(a_export))

\* one chunk of the body of a URL, and the gap a write past the end leaves
Chunk(url, k) == [url |-> url, k |-> k]

Hole == Chunk(NoneUrl, 0)

\* f.write(chunk) at the offset off of this file object
WriteAt(file, off, chunk) ==
    [i \in 1..(IF Len(file) > off THEN Len(file) ELSE off + 1) |->
        IF i = off + 1 THEN chunk
        ELSE IF i <= Len(file) THEN file[i] ELSE Hole]

AInFlight == {e \in Nodes : a_pc[e] \notin {"idle", "done"}}

has_played_attr(node) == node.played # "absent"

\* line 37: 'played' in episode.attrs and episode['played'] == '1'
is_played(node) == node.played = "1"

\* lines 37-58: the played test, the URL, the dedup set; then the file name
ACheck(e) ==
    /\ a_pc[e] = "check"
    /\ LET node == a_export[e]
       IN  IF ~is_played(node)
           THEN /\ a_pc' = [a_pc EXCEPT ![e] = "done"]
                /\ a_outcome' = [a_outcome EXCEPT ![e] = "Excluded"]
           ELSE IF node.enclosureUrl.isNone
           THEN /\ a_pc' = [a_pc EXCEPT ![e] = "done"]
                /\ a_outcome' = [a_outcome EXCEPT ![e] = "NoUrl"]
           ELSE IF hash_url(node.enclosureUrl) \in downloaded_episodes
           THEN /\ a_pc' = [a_pc EXCEPT ![e] = "done"]
                /\ a_outcome' = [a_outcome EXCEPT ![e] = "Skipped"]
           ELSE /\ a_pc' = [a_pc EXCEPT ![e] = "get"]
                /\ UNCHANGED a_outcome
    /\ UNCHANGED <<fn, dvars, a_export, a_disk, downloaded_file, downloaded_episodes,
                   a_run, a_main, a_cur, a_off, a_faults>>

\* lines 63-64: requests.get and raise_for_status
AGet(e) ==
    /\ a_pc[e] = "get"
    /\ \/ /\ a_pc' = [a_pc EXCEPT ![e] = "open"]
          /\ UNCHANGED <<a_outcome, a_faults>>
       \/ /\ a_faults < MaxFaults
          /\ a_faults' = a_faults + 1
          /\ a_pc' = [a_pc EXCEPT ![e] = "done"]
          /\ a_outcome' = [a_outcome EXCEPT ![e] = "Failed"]
    /\ UNCHANGED <<fn, dvars, a_export, a_disk, downloaded_file, downloaded_episodes,
                   a_run, a_main, a_cur, a_off>>

\* line 65: open(mp3_file, 'wb') creates or truncates the media file
AOpen(e) ==
    /\ a_pc[e] = "open"
    /\ a_disk' = Put(a_disk, mp3_file(a_export[e]), <<>>)
    /\ a_off' = [a_off EXCEPT ![e] = 0]
    /\ a_pc' = [a_pc EXCEPT ![e] = "stream"]
    /\ UNCHANGED <<fn, dvars, a_export, downloaded_file, downloaded_episodes, a_run,
                   a_main, a_cur, a_outcome, a_faults>>

\* lines 66-67: the next chunk is written, or the body ends, or the
\* connection fails and the except clause reports it
AStream(e) ==
    /\ a_pc[e] = "stream"
    /\ LET path == mp3_file(a_export[e])
           url == a_export[e].enclosureUrl
       IN  IF a_off[e] = NumChunks
           THEN /\ a_pc' = [a_pc EXCEPT ![e] = "append"]
                /\ a_outcome' = [a_outcome EXCEPT ![e] = "Downloaded"]
                /\ UNCHANGED <<a_disk, a_off, a_faults>>
           ELSE \/ /\ a_disk' = Put(a_disk, path,
                                    WriteAt(a_disk[path], a_off[e], Chunk(url, a_off[e] + 1)))
                   /\ a_off' = [a_off EXCEPT ![e] = @ + 1]
                   /\ UNCHANGED <<a_pc, a_outcome, a_faults>>
                \/ /\ a_faults < MaxFaults
                   /\ a_faults' = a_faults + 1
                   /\ a_pc' = [a_pc EXCEPT ![e] = "done"]
                   /\ a_outcome' = [a_outcome EXCEPT ![e] = "Failed"]
                   /\ UNCHANGED <<a_disk, a_off>>
    /\ UNCHANGED <<fn, dvars, a_export, downloaded_file, downloaded_episodes, a_run,
                   a_main, a_cur>>

AAppendUnconditional(e) ==
    /\ a_pc[e] \in {"stream", "append"}
    /\ downloaded_file' =
          AppendLine(downloaded_file, LogLine(hash_url(a_export[e].enclosureUrl)))
    /\ a_pc' = [a_pc EXCEPT ![e] = "done"]
    /\ UNCHANGED <<fn, dvars, a_export, a_disk, downloaded_episodes, a_run, a_main,
                   a_cur, a_off, a_outcome, a_faults>>

\* lines 68-69: append the hash to downloaded_episodes.txt
AAppend(e) ==
    /\ a_pc[e] = "append"
    /\ downloaded_file' =
          AppendLine(downloaded_file, LogLine(hash_url(a_export[e].enclosureUrl)))
    /\ a_pc' = [a_pc EXCEPT ![e] = "done"]
    /\ UNCHANGED <<fn, dvars, a_export, a_disk, downloaded_episodes, a_run, a_main,
                   a_cur, a_off, a_outcome, a_faults>>

\* line 120: executor.map submits every outline of the podcast
SubmitPodcast(k) ==
    [e \in Nodes |-> IF PodcastOf(e) = k THEN "check" ELSE a_pc[e]]

\* lines 16, 75-120: construction loads the dedup set; then the first
\* selected podcast goes to the pool ('all' is selected)
AMainStart ==
    /\ a_main = "start"
    /\ a_export # <<>>
    /\ downloaded_episodes' = load_downloaded_episodes(downloaded_file)
    /\ a_cur' = 1
    /\ a_pc' = SubmitPodcast(1)
    /\ a_main' = "pool"
    /\ UNCHANGED <<fn, dvars, a_export, a_disk, downloaded_file, a_run, a_off,
                   a_outcome, a_faults>>

\* lines 107-120: the with block ends when every call has returned; the
\* loop goes on to the next podcast, or the program prints "Complete."
AMainJoin ==
    /\ a_main = "pool"
    /\ AInFlight = {}
    /\ IF a_cur < NumPodcasts
       THEN /\ a_cur' = a_cur + 1
            /\ a_pc' = SubmitPodcast(a_cur + 1)
            /\ UNCHANGED a_main
       ELSE /\ a_main' = "complete"
            /\ UNCHANGED <<a_cur, a_pc>>
    /\ UNCHANGED <<fn, dvars, a_export, a_disk, downloaded_file, downloaded_episodes,
                   a_run, a_off, a_outcome, a_faults>>

\* the program is run again on the same source file and directories
ANextRun ==
    /\ a_main = "complete"
    /\ a_run < MaxRuns
    /\ a_run' = a_run + 1
    /\ a_main' = "start"
    /\ a_cur' = 0
    /\ a_pc' = [e \in Nodes |-> "idle"]
    /\ a_off' = [e \in Nodes |-> 0]
    /\ a_outcome' = [e \in Nodes |-> "none"]
    /\ UNCHANGED <<fn, dvars, a_export, a_disk, downloaded_file, downloaded_episodes,
                   a_faults>>

AInit(ax) ==
    /\ a_export = ax
    /\ a_disk = EmptyDisk
    /\ downloaded_file = <<>>
    /\ downloaded_episodes = {}
    /\ a_run = 1
    /\ a_main = "start"
    /\ a_cur = 0
    /\ a_pc = [e \in DOMAIN ax |-> "idle"]
    /\ a_off = [e \in DOMAIN ax |-> 0]
    /\ a_outcome = [e \in DOMAIN ax |-> "none"]
    /\ a_faults = 0

InitArchive ==
    /\ DInit(<<>>, EmptyDisk)
    /\ xml_string = "ok"
    /\ fn = NoFn
    /\ \E ax \in ArchiveExports : AInit(ax)

NextArchive ==
    \/ AMainStart
    \/ AMainJoin
    \/ ANextRun
    \/ \E e \in Nodes : ACheck(e)
    \/ \E e \in Nodes : AGet(e)
    \/ \E e \in Nodes : AOpen(e)
    \/ \E e \in Nodes : AStream(e)
    \/ \E e \in Nodes : AAppend(e)

SpecArchive == InitArchive /\ [][NextArchive]_vars

-----------------------------------------------------------------------------
(* Properties of download_overcast_podcasts.py *)

Unwound == main_pc \in {"unwinding", "crashed"}

\* the episodes of the export resolve to pairwise distinct file names
DistinctNames ==
    \A i, j \in Episodes :
        (/\ i # j
         /\ podcast_dir(export[i]) = podcast_dir(export[j]))
        => _escape(export[i].episode.title) # _escape(export[j].episode.title)

\* C1: at most max_parallel_downloads calls of download_episode are
\* submitted and not yet completed, in every state of the refill loop.
C1_PoolBound == Cardinality(InFlight) <= max_parallel_downloads

\* the pool is full while an episode admitted by the refill loop is at work
C1_Witness ==
    /\ Len(export) > max_parallel_downloads
    /\ Cardinality(InFlight) = max_parallel_downloads
    /\ \E e \in InFlight : e > max_parallel_downloads

\* C2: when the run has ended, every episode of the export has been
\* processed to a terminal outcome.
C2_AllTerminal == RunEnded => \A e \in Episodes : pc[e] \in {"done", "raised"}

\* C3: a failed episode never unwinds into the scheduling loop: while some
\* episode is Failed the loop keeps admitting the remaining episodes.
C3_FailureConfined ==
    (\E e \in Episodes : outcome[e] = "Failed") => ~Unwound

\* C5: a run that follows a run in which every fetch succeeded fetches
\* nothing, skips every episode and leaves the tree as it found it.
C5_Idempotent ==
    (run > 1 /\ prev_end = "clean")
    => /\ \A e \in Episodes : fetch_count[e] = 0
       /\ main_pc = "exit"
          => /\ disk = tree_prev
             /\ \A e \in Episodes : outcome[e] = "Skipped"

\* C6: when a run has downloaded two distinct episodes of one podcast, the
\* media of both is on disk under two different names.
C6_BothPresent ==
    \A i, j \in Episodes :
        (/\ i # j
         /\ main_pc = "exit"
         /\ outcome[i] = "Downloaded"
         /\ outcome[j] = "Downloaded")
        => \E p, q \in DOMAIN disk :
              /\ p # q
              /\ disk[p] = MediaFile(export[i].episode.enclosure_url)
              /\ disk[q] = MediaFile(export[j].episode.enclosure_url)

\* C8: a sidecar on disk has its media file on disk, under the file name
\* the sidecar records.
C8_SidecarImpliesMedia ==
    \A p \in DOMAIN disk :
        disk[p].kind = "json" => exists(<<p[1], disk[p].filename>>)

\* C9: the run that follows an interrupted run does not abort (the export
\* is readable and has no colliding names, and the environment does not
\* fail during the run).
C9_CleanRecovery ==
    (/\ prev_end = "interrupted"
     /\ xml_string = "ok"
     /\ ~faulted
     /\ DistinctNames
     /\ \A e \in Episodes : ~export[e].episode.enclosure_url.isNone)
    => ~Unwound

\* C11: within a run in which no transfer fails, at most one call fetches
\* the feed snapshot of a podcast for a given day.
C11_FeedOnce ==
    ~faulted
    => \A e, f \in feed_by :
          rss_path(export[e]) = rss_path(export[f]) => e = f

\* C12: an episode without a media URL is not fatal: on a readable export
\* without colliding names and without environment failures nor an earlier
\* interrupt, the run does not abort.
C12_NoUrlNotFatal ==
    (/\ \E e \in Episodes : export[e].episode.enclosure_url.isNone
     /\ xml_string = "ok"
     /\ prev_end \in {"none", "clean"}
     /\ ~faulted
     /\ DistinctNames)
    => ~Unwound

\* C13: with an OPML file that cannot be read or parsed no download_episode
\* call is submitted, nothing is fetched and nothing is written.
C13_InputErrorFirst ==
    xml_string # "ok"
    => /\ \A e \in Episodes : pc[e] = "pending" /\ fetch_count[e] = 0
       /\ futures = {}
       /\ disk = tree_prev
       /\ dirs = {p[1] : p \in DOMAIN tree_prev}

\* the run on a malformed export has ended
C13_Witness ==
    /\ xml_string = "malformed"
    /\ Episodes # {}
    /\ main_pc = "crashed"

\* C16: while the transfer of an episode is pending or after it failed, no
\* file is at its final path (the names of this export are distinct and the
\* path was absent at the existence test), and a media or feed transfer that
\* fails leaves the whole tree as it was.
C16_RenameAfterTransfer ==
    /\ [](\A e \in Episodes :
            (pc[e] = "fetch" \/ outcome[e] = "Failed")
            => ~exists(local[e].download_path))
    /\ [][faults' # faults => disk' = disk]_vars

\* one episode's transfer failed and its call went on to the end, while
\* another's file was renamed into place
C16_Witness ==
    \E e, f \in Episodes :
        /\ outcome[e] = "Failed"
        /\ pc[e] = "done"
        /\ outcome[f] = "Downloaded"
        /\ exists(local[f].download_path)

EscapedTitleThenExtension ==
    LET n == Len(fn.title)
        m == Len(fn.path)
        r == fn.result
        Ext(d) == /\ fn.path[d] = "."
                  /\ \A k \in (d + 1)..m : fn.path[k] \notin {".", "/"}
                  /\ \E k \in 1..(d - 1) :
                        /\ fn.path[k] # "."
                        /\ \A j \in k..(d - 1) : fn.path[j] # "/"
    IN  /\ Len(r) >= n
        /\ \A i \in 1..n : r[i] = IF fn.title[i] \in {":", "/"} THEN "-" ELSE fn.title[i]
        /\ IF \E d \in 1..m : Ext(d)
           THEN \E d \in 1..m : Ext(d) /\ SubSeq(r, n + 1, Len(r)) = SubSeq(fn.path, d, m)
           ELSE Len(r) = n

\* C15: the file name is the escaped title followed unchanged by the
\* extension of the URL path, and contains neither ':' nor '/'.
C15_Filename ==
    fn.state = "done"
    => /\ EscapedTitleThenExtension
       /\ \A i \in 1..Len(fn.result) : fn.result[i] \notin {":", "/"}

-----------------------------------------------------------------------------
(* Properties of overcast_archive.py *)

LogCount(h) ==
    Cardinality({i \in DOMAIN downloaded_file : strip(downloaded_file[i]) = h})

\* C4: after a fetch failed between two chunks of the body, no file is at
\* the final media path of the episode.
C4_NoPartialFile ==
    \A e \in Nodes :
        (/\ a_pc[e] = "done"
         /\ a_outcome[e] = "Failed"
         /\ a_off[e] \in 1..(NumChunks - 1))
        => mp3_file(a_export[e]) \notin DOMAIN a_disk

\* C7: the hash of an episode identity is appended to the log at most once,
\* however often the identity is encountered.
C7_AppendedOnce ==
    \A e \in Nodes :
        ~a_export[e].enclosureUrl.isNone
        => LogCount(hash_url(a_export[e].enclosureUrl)) <= 1

\* C10: when the run is complete, the log holds, as a line of its own, the
\* hash of every episode whose download completed in the run.
C10_NoLostEntry ==
    a_main = "complete"
    => \A e \in Nodes :
          a_outcome[e] = "Downloaded"
          => \E i \in DOMAIN downloaded_file :
                downloaded_file[i] = LogLine(hash_url(a_export[e].enclosureUrl))

\* a complete run in which two workers of one pool finished two downloads
C10_Witness ==
    /\ a_main = "complete"
    /\ \E e, f \in Nodes :
          /\ e # f
          /\ PodcastOf(e) = PodcastOf(f)
          /\ a_export[e].enclosureUrl # a_export[f].enclosureUrl
          /\ a_outcome[e] = "Downloaded"
          /\ a_outcome[f] = "Downloaded"

\* C14: an outline whose played attribute is absent or not '1' is never
\* fetched, and leaves no media file and no log entry of its own.
C14_UnplayedExcluded ==
    \A e \in Nodes :
        a_export[e].played # "1"
        => /\ a_pc[e] \in {"idle", "check", "done"}
           /\ a_outcome[e] \in {"none", "Excluded"}
           /\ (\A f \in Nodes : a_export[f].played = "1"
                                => mp3_file(a_export[f]) # mp3_file(a_export[e]))
              => mp3_file(a_export[e]) \notin DOMAIN a_disk
           /\ (\A f \in Nodes : a_export[f].played = "1"
                                => a_export[f].enclosureUrl # a_export[e].enclosureUrl)
              => LogCount(hash_url(a_export[e].enclosureUrl)) = 0

\* a complete run over a podcast with an unplayed outline and a played one
\* that was downloaded
C14_Witness ==
    /\ a_main = "complete"
    /\ \E e, f \in Nodes :
          /\ a_export[e].played = "0"
          /\ a_outcome[e] = "Excluded"
          /\ a_outcome[f] = "Downloaded"

C19_FailedRefetched ==
    /\ \A e \in Episodes : fetch_count[e] <= 1
    /\ \A e \in prev_failed : outcome[e] # "Skipped"

====
